---- MODULE Spec2Model ----
(***************************************************************************)
(* Conway's Game of Life, gameoflife.js.  The file holds three successive  *)
(* versions of the program; the model covers the current one (lines 1-216, *)
(* island search, fastNextState, playFromParams), the fastNextState of the *)
(* earlier draft (lines 309-372) and the full-scan one (lines 401-554,     *)
(* nextState).  A JavaScript string is a sequence of one-character         *)
(* strings, a Set is the sequence of its elements in insertion order, and  *)
(* a value that may be null is the empty set (null) or a singleton.        *)
(***************************************************************************)
EXTENDS Integers, Sequences, FiniteSets, TLC

(***************************************************************************)
(* Bounds of the model.                                                    *)
(***************************************************************************)
\* largest initHeight drawn
MaxHeight == 2
\* largest initWidth drawn
MaxWidth == 3
\* most cells the random seeding makes alive
MaxCells == 4
\* generations computed before the model stops stepping
MaxGen == 3
\* largest delay (in timer ticks) drawn
MaxDelay == 1
\* largest bound of a Range drawn when the rule engine is checked alone
MaxRangeBound == 4
\* largest bound of a Range drawn when a Game is given rules of its own
MaxCustomBound == 1
\* a Game with more live cells than this is not stepped further when its
\* step method is called from outside playGame
MaxAlive == 12

(***************************************************************************)
(* Strings and numbers: row + "," + col, loc.split(","), +rowCol[k].       *)
(***************************************************************************)
Digits == <<"0", "1", "2", "3", "4", "5", "6", "7", "8", "9">>

RECURSIVE NatToString(_)
NatToString(n) ==
    IF n < 10 THEN <<Digits[n + 1]>>
    ELSE NatToString(n \div 10) \o <<Digits[(n % 10) + 1]>>

\* ToString of an integer, as string concatenation (i + ",") applies it
NumToString(n) == IF n < 0 THEN <<"-">> \o NatToString(-n) ELSE NatToString(n)

\* the set element of a cell: row + "," + col
Key(row, col) == NumToString(row) \o <<",">> \o NumToString(col)

\* String.prototype.split with a one-character separator
RECURSIVE splitFrom(_, _, _, _)
splitFrom(s, sep, k, cur) ==
    IF k > Len(s) THEN <<cur>>
    ELSE IF s[k] = sep THEN <<cur>> \o splitFrom(s, sep, k + 1, <<>>)
    ELSE splitFrom(s, sep, k + 1, Append(cur, s[k]))

split(s, sep) == splitFrom(s, sep, 1, <<>>)

DigitValue(ch) == CHOOSE d \in 0..9 : Digits[d + 1] = ch

RECURSIVE DigitsToNat(_, _, _)
DigitsToNat(s, k, acc) ==
    IF k > Len(s) THEN acc ELSE DigitsToNat(s, k + 1, 10 * acc + DigitValue(s[k]))

\* unary plus on a string holding a decimal integer
ToNumber(s) ==
    IF Len(s) > 0 /\ s[1] = "-" THEN 0 - DigitsToNat(s, 2, 0) ELSE DigitsToNat(s, 1, 0)

\* Set.prototype.has and Set.prototype.add on an insertion-ordered Set
has(set, k) == \E n \in DOMAIN set : set[n] = k

add(set, k) == IF has(set, k) THEN set ELSE Append(set, k)

\* the coordinates held by a Set of keys
Cells(set) == {<<ToNumber(split(set[n], ",")[1]), ToNumber(split(set[n], ",")[2])>> : n \in DOMAIN set}

(***************************************************************************)
(* Range and GameRules.                                                    *)
(***************************************************************************)
Null == {}

Num(n) == {n}

ValueOf(x) == CHOOSE v \in x : TRUE

Range(lowerBound, upperBound) == [lowerBound |-> lowerBound, upperBound |-> upperBound]

inRange_strictLower(range, num) ==
    LET lowerBoundCheck == range.lowerBound = Null \/ ValueOf(range.lowerBound) < num
        upperBoundCheck == range.upperBound = Null \/ num < ValueOf(range.upperBound)
    IN  lowerBoundCheck /\ upperBoundCheck

inRange_closedUpper(range, num) ==
    LET lowerBoundCheck == range.lowerBound = Null \/ ValueOf(range.lowerBound) <= num
        upperBoundCheck == range.upperBound = Null \/ num <= ValueOf(range.upperBound)
    IN  lowerBoundCheck /\ upperBoundCheck

inRange(range, num) ==
    LET lowerBoundCheck == range.lowerBound = Null \/ ValueOf(range.lowerBound) <= num
        upperBoundCheck == range.upperBound = Null \/ num < ValueOf(range.upperBound)
    IN  lowerBoundCheck /\ upperBoundCheck

GameRules(populate, reproduce) == [populate |-> populate, reproduce |-> reproduce]

\* new GameRules(): the defaults of the constructor's parameters
DefaultRules == GameRules(Range(Num(2), Num(4)), Range(Num(3), Num(4)))

shouldLive(r, isCurrentlyAlive, numNeighbors) ==
    IF isCurrentlyAlive THEN inRange(r.populate, numNeighbors)
    ELSE inRange(r.reproduce, numNeighbors)

(***************************************************************************)
(* Game: the constructor, toString and the neighbour count.                *)
(***************************************************************************)
NewGame(r, board, minHeight, minWidth, maxHeight, maxWidth) ==
    [rules |-> r, board |-> board, minHeight |-> minHeight, minWidth |-> minWidth,
     maxHeight |-> maxHeight, maxWidth |-> maxWidth]

\* the cells two nested for loops visit, in the order they visit them: the
\* outer loop from firstI to lastI, the inner one from firstJ to lastJ
loopCells(firstI, lastI, firstJ, lastJ) ==
    LET nI == IF lastI < firstI THEN 0 ELSE (lastI - firstI) + 1
        nJ == IF lastJ < firstJ THEN 0 ELSE (lastJ - firstJ) + 1
    IN  [n \in 1..(nI * nJ) |-> <<firstI + ((n - 1) \div nJ), firstJ + ((n - 1) % nJ)>>]

\* the Set left by adding the keys of distinct cells in order
addAll(cells) == [n \in DOMAIN cells |-> Key(cells[n][1], cells[n][2])]

\* the two loops of the constructor; below is the set of cells (i, j) for
\* which Math.random() < initDensity came out true
Constructor_clamped(initHeight, initWidth, below, r) ==
    LET isBelow(c) == c \in below
        seeded == SelectSeq(loopCells(0, initHeight - 1, 0, initWidth - 1), isBelow)
    IN  NewGame(r, addAll(seeded), 0, 0, IF initHeight < 0 THEN 0 ELSE initHeight,
                IF initWidth < 0 THEN 0 ELSE initWidth)

Constructor(initHeight, initWidth, below, r) ==
    LET isBelow(c) == c \in below
        seeded == SelectSeq(loopCells(0, initHeight - 1, 0, initWidth - 1), isBelow)
    IN  NewGame(r, addAll(seeded), 0, 0, initHeight, initWidth)

\* one line of text for each row of the box: a character for each of its
\* columns, then the newline
toString_swapped(g) ==
    LET nI == IF g.maxHeight < g.minHeight THEN 0 ELSE g.maxHeight - g.minHeight
        nJ == IF g.maxWidth < g.minWidth THEN 0 ELSE g.maxWidth - g.minWidth
    IN  [n \in 1..(nI * (nJ + 1)) |->
            LET i == g.minHeight + ((n - 1) \div (nJ + 1))
                j == g.minWidth + ((n - 1) % (nJ + 1))
            IN  IF j = g.maxWidth THEN "\n"
                ELSE IF has(g.board, Key(j, i)) THEN "X" ELSE " "]

toString(g) ==
    LET nI == IF g.maxHeight < g.minHeight THEN 0 ELSE g.maxHeight - g.minHeight
        nJ == IF g.maxWidth < g.minWidth THEN 0 ELSE g.maxWidth - g.minWidth
    IN  [n \in 1..(nI * (nJ + 1)) |->
            LET i == g.minHeight + ((n - 1) \div (nJ + 1))
                j == g.minWidth + ((n - 1) % (nJ + 1))
            IN  IF j = g.maxWidth THEN "\n"
                ELSE IF has(g.board, Key(i, j)) THEN "X" ELSE " "]

\* countNeighbors of fastNextState, lines 98-108
countNeighbors_withSelf(g, row, col) ==
    Cardinality({ij \in ((row - 1)..(row + 1)) \X ((col - 1)..(col + 1)) :
                    has(g.board, Key(ij[1], ij[2]))})

countNeighbors(g, row, col) ==
    Cardinality({ij \in ((row - 1)..(row + 1)) \X ((col - 1)..(col + 1)) :
                    ~(ij[1] = row /\ ij[2] = col) /\ has(g.board, Key(ij[1], ij[2]))})

(***************************************************************************)
(* fastNextState, lines 92-189: the island search.                         *)
(***************************************************************************)
updateBoardBoundaries_noMax(currentBoundaries, row, col) ==
    LET b1 == IF currentBoundaries.minHeight = Null \/ row < ValueOf(currentBoundaries.minHeight)
              THEN [currentBoundaries EXCEPT !.minHeight = Num(row)] ELSE currentBoundaries
        b2 == IF b1.minWidth = Null \/ col < ValueOf(b1.minWidth)
              THEN [b1 EXCEPT !.minWidth = Num(col)] ELSE b1
    IN  b2

updateBoardBoundaries_noMin(currentBoundaries, row, col) ==
    LET b1 == IF currentBoundaries.maxHeight = Null \/ row = ValueOf(currentBoundaries.maxHeight)
              THEN [currentBoundaries EXCEPT !.maxHeight = Num(row + 1)] ELSE currentBoundaries
        b2 == IF b1.maxWidth = Null \/ col = ValueOf(b1.maxWidth)
              THEN [b1 EXCEPT !.maxWidth = Num(col + 1)] ELSE b1
    IN  b2

updateBoardBoundaries(currentBoundaries, row, col) ==
    LET b1 == IF currentBoundaries.minHeight = Null \/ row < ValueOf(currentBoundaries.minHeight)
              THEN [currentBoundaries EXCEPT !.minHeight = Num(row)] ELSE currentBoundaries
        b2 == IF b1.maxHeight = Null \/ row = ValueOf(b1.maxHeight)
              THEN [b1 EXCEPT !.maxHeight = Num(row + 1)] ELSE b1
        b3 == IF b2.minWidth = Null \/ col < ValueOf(b2.minWidth)
              THEN [b2 EXCEPT !.minWidth = Num(col)] ELSE b2
        b4 == IF b3.maxWidth = Null \/ col = ValueOf(b3.maxWidth)
              THEN [b3 EXCEPT !.maxWidth = Num(col + 1)] ELSE b3
    IN  b4

\* st holds the three objects dfs mutates: visited, newBoard, boundaries
RECURSIVE dfs(_, _, _, _)
RECURSIVE dfsLoop(_, _, _, _, _, _)
RECURSIVE islandLoop(_, _, _, _)

\* the body of the two for loops of dfs, lines 155-164, at their k-th
\* iteration (k = 0..8): the cell (i, j) of the neighbourhood of (row, col)
dfsCell(g, row, col, k, st) ==
    LET i == (row - 1) + (k \div 3)
        j == (col - 1) + (k % 3)
        isAlive == has(g.board, Key(i, j))
        numNeighbors == countNeighbors(g, i, j)
        live == shouldLive(g.rules, isAlive, numNeighbors)
    IN  IF live
        THEN IF ~(i = row /\ j = col)
             THEN dfs(g, i, j, [st EXCEPT !.newBoard = add(@, Key(i, j)),
                                          !.boundaries = updateBoardBoundaries(@, i, j)])
             ELSE [st EXCEPT !.newBoard = add(@, Key(i, j)),
                             !.boundaries = updateBoardBoundaries(@, i, j)]
        ELSE st

\* the iterations first..last of the two for loops of dfs, lines 153-166, one
\* after the other: the state left by the iterations first..mid is computed
\* first and the iterations mid+1..last continue from it
dfsLoop(g, row, col, first, last, st) ==
    IF first = last THEN dfsCell(g, row, col, first, st)
    ELSE LET mid == (first + last) \div 2
         IN  CHOOSE r \in {dfsLoop(g, row, col, mid + 1, last, done) :
                              done \in {dfsLoop(g, row, col, first, mid, st)}} : TRUE

\* lines 141-167.  Besides visited, newBoard and boundaries the state records
\* what the call did: calls counts the calls of dfs, processed lists the
\* cells for which dfs went past the visited check and looped those for
\* which it ran the two for loops
dfs_exploreDead(g, row, col, st) ==
    IF has(st.visited, Key(row, col)) THEN [st EXCEPT !.calls = @ + 1]
    ELSE IF ~has(g.board, Key(row, col))
            /\ shouldLive(g.rules, FALSE, countNeighbors(g, row, col))
         THEN dfsLoop(g, row, col, 0, 8,
                      [st EXCEPT !.calls = @ + 1,
                                 !.visited = add(@, Key(row, col)),
                                 !.processed = Append(@, Key(row, col)),
                                 !.looped = Append(@, Key(row, col)),
                                 !.newBoard = add(@, Key(row, col)),
                                 !.boundaries = updateBoardBoundaries(@, row, col)])
         ELSE dfsLoop(g, row, col, 0, 8,
                      [st EXCEPT !.calls = @ + 1,
                                 !.visited = add(@, Key(row, col)),
                                 !.processed = Append(@, Key(row, col)),
                                 !.looped = Append(@, Key(row, col))])

dfs(g, row, col, st) ==
    IF has(st.visited, Key(row, col)) THEN [st EXCEPT !.calls = @ + 1]
    ELSE IF ~has(g.board, Key(row, col))
            /\ shouldLive(g.rules, FALSE, countNeighbors(g, row, col))
         THEN [st EXCEPT !.calls = @ + 1,
                         !.visited = add(@, Key(row, col)),
                         !.processed = Append(@, Key(row, col)),
                         !.newBoard = add(@, Key(row, col)),
                         !.boundaries = updateBoardBoundaries(@, row, col)]
         ELSE dfsLoop(g, row, col, 0, 8,
                      [st EXCEPT !.calls = @ + 1,
                                 !.visited = add(@, Key(row, col)),
                                 !.processed = Append(@, Key(row, col)),
                                 !.looped = Append(@, Key(row, col))])

\* lines 178-181 for the n-th element of this.board
islandCell_freshVisited(g, n, st) ==
    LET rowCol == split(g.board[n], ",")
        row == ToNumber(rowCol[1])
        col == ToNumber(rowCol[2])
    IN  dfs(g, row, col, [st EXCEPT !.visited = <<>>])

islandCell(g, n, st) ==
    LET rowCol == split(g.board[n], ",")
        row == ToNumber(rowCol[1])
        col == ToNumber(rowCol[2])
    IN  dfs(g, row, col, st)

\* for (let loc of this.board), lines 177-182, for the elements first..last
\* in insertion order, split as in dfsLoop
islandLoop(g, first, last, st) ==
    IF first > last THEN st
    ELSE IF first = last THEN islandCell(g, first, st)
    ELSE LET mid == (first + last) \div 2
         IN  CHOOSE r \in {islandLoop(g, mid + 1, last, done) :
                              done \in {islandLoop(g, first, mid, st)}} : TRUE

\* x || 0 on a number or null
OrZero_clamp(x) == IF x = Null \/ ValueOf(x) <= 0 THEN 0 ELSE ValueOf(x)

OrZero(x) == IF x = Null \/ ValueOf(x) = 0 THEN 0 ELSE ValueOf(x)

\* lines 169-182: the search from every element of this.board
searchIslands_fromNull(g) ==
    islandLoop(g, 1, Len(g.board),
               [visited |-> <<>>, newBoard |-> <<>>,
                boundaries |-> [minHeight |-> Null, minWidth |-> Null,
                                maxHeight |-> Null, maxWidth |-> Null],
                calls |-> 0, processed |-> <<>>, looped |-> <<>>])

searchIslands(g) ==
    LET boundaries == [minHeight |-> Num(g.minHeight), minWidth |-> Num(g.minWidth),
                       maxHeight |-> Num(g.maxHeight), maxWidth |-> Num(g.maxWidth)]
    IN  islandLoop(g, 1, Len(g.board),
                   [visited |-> <<>>, newBoard |-> <<>>, boundaries |-> boundaries,
                    calls |-> 0, processed |-> <<>>, looped |-> <<>>])

\* lines 183-188: the Game after the search has left st
afterSearch(g, st) ==
    NewGame(g.rules, st.newBoard, OrZero(st.boundaries.minHeight),
            OrZero(st.boundaries.minWidth), OrZero(st.boundaries.maxHeight),
            OrZero(st.boundaries.maxWidth))

fastNextState(g) == afterSearch(g, searchIslands(g))

(***************************************************************************)
(* fastNextState of the earlier draft, lines 309-372: the same search,     *)
(* with an updateBoardBoundaries that writes the fields of the Game.       *)
(***************************************************************************)
\* lines 322-333; box holds this.minHeight, this.minWidth, this.maxHeight,
\* this.maxWidth and this.maxWitdh
draft_updateBoardBoundaries(box, row, col) ==
    LET h == IF row < box.minHeight THEN [box EXCEPT !.minHeight = row]
             ELSE IF row = box.maxHeight THEN [box EXCEPT !.maxHeight = row + 1]
             ELSE box
        w == IF col < h.minWidth THEN [h EXCEPT !.minWidth = col]
             ELSE IF col = h.maxWidth THEN [h EXCEPT !.maxWitdh = Num(col + 1)]
             ELSE h
    IN  w

RECURSIVE draft_dfs(_, _, _, _)
RECURSIVE draft_dfsLoop(_, _, _, _, _, _)
RECURSIVE draft_islandLoop(_, _, _, _)

\* lines 350-359 at the k-th iteration of the two for loops
draft_dfsCell(g, row, col, k, st) ==
    LET i == (row - 1) + (k \div 3)
        j == (col - 1) + (k % 3)
        isAlive == has(g.board, Key(i, j))
        numNeighbors == countNeighbors(g, i, j)
        live == shouldLive(g.rules, isAlive, numNeighbors)
    IN  IF live
        THEN IF ~(i = row /\ j = col)
             THEN draft_dfs(g, i, j, [st EXCEPT !.newBoard = add(@, Key(i, j)),
                                                !.box = draft_updateBoardBoundaries(@, i, j)])
             ELSE [st EXCEPT !.newBoard = add(@, Key(i, j)),
                             !.box = draft_updateBoardBoundaries(@, i, j)]
        ELSE st

\* lines 348-361
draft_dfsLoop(g, row, col, first, last, st) ==
    IF first = last THEN draft_dfsCell(g, row, col, first, st)
    ELSE LET mid == (first + last) \div 2
         IN  CHOOSE r \in {draft_dfsLoop(g, row, col, mid + 1, last, done) :
                              done \in {draft_dfsLoop(g, row, col, first, mid, st)}} : TRUE

\* lines 335-362
draft_dfs(g, row, col, st) ==
    IF has(st.visited, Key(row, col)) THEN st
    ELSE IF ~has(g.board, Key(row, col))
            /\ shouldLive(g.rules, FALSE, countNeighbors(g, row, col))
         THEN [st EXCEPT !.visited = add(@, Key(row, col)),
                         !.newBoard = add(@, Key(row, col)),
                         !.box = draft_updateBoardBoundaries(@, row, col)]
         ELSE draft_dfsLoop(g, row, col, 0, 8, [st EXCEPT !.visited = add(@, Key(row, col))])

\* lines 367-370 for the n-th element of this.board
draft_islandCell(g, n, st) ==
    LET rowCol == split(g.board[n], ",")
        row == ToNumber(rowCol[1])
        col == ToNumber(rowCol[2])
    IN  draft_dfs(g, row, col, st)

\* lines 366-371
draft_islandLoop(g, first, last, st) ==
    IF first > last THEN st
    ELSE IF first = last THEN draft_islandCell(g, first, st)
    ELSE LET mid == (first + last) \div 2
         IN  CHOOSE r \in {draft_islandLoop(g, mid + 1, last, done) :
                              done \in {draft_islandLoop(g, first, mid, st)}} : TRUE

\* lines 309-372: what the search leaves, the Game's box fields and the
\* property maxWitdh (witdh before the call) included
draft_fastNextState(g, witdh) ==
    draft_islandLoop(g, 1, Len(g.board),
                     [visited |-> <<>>, newBoard |-> <<>>,
                      box |-> [minHeight |-> g.minHeight, minWidth |-> g.minWidth,
                               maxHeight |-> g.maxHeight, maxWidth |-> g.maxWidth,
                               maxWitdh |-> witdh]])

(***************************************************************************)
(* nextState, lines 492-541: the scan of the whole rectangle.              *)
(***************************************************************************)
\* lines 522-531: the new box after a cell at (row, col) is found to live
extendBox_noElse(g, nb, row, col) ==
    LET h == IF row < g.minHeight THEN [nb EXCEPT !.newMinHeight = row] ELSE nb
        w == IF col < g.minWidth THEN [h EXCEPT !.newMinWidth = col] ELSE h
    IN  w

extendBox(g, nb, row, col) ==
    LET h == IF row < g.minHeight THEN [nb EXCEPT !.newMinHeight = row]
             ELSE IF row = g.maxHeight THEN [nb EXCEPT !.newMaxHeight = row + 1]
             ELSE nb
        w == IF col < g.minWidth THEN [h EXCEPT !.newMinWidth = col]
             ELSE IF col = g.maxWidth THEN [h EXCEPT !.newMaxWidth = col + 1]
             ELSE h
    IN  w

\* the first row and column scanned, lines 515-516
firstRow_inside(g) == g.minHeight

firstRow(g) == g.minHeight - 1

firstCol(g) == g.minWidth - 1

\* countNeighbors of nextState, lines 498-508
nextState_countNeighbors_withSelf(g, row, col) ==
    Cardinality({ij \in ((row - 1)..(row + 1)) \X ((col - 1)..(col + 1)) :
                    has(g.board, Key(ij[1], ij[2]))})

nextState_countNeighbors(g, row, col) ==
    Cardinality({ij \in ((row - 1)..(row + 1)) \X ((col - 1)..(col + 1)) :
                    ~(ij[1] = row /\ ij[2] = col) /\ has(g.board, Key(ij[1], ij[2]))})

\* the scanned cells found to live, lines 515-520, in scan order
scanLive(g) ==
    LET live(c) == shouldLive(g.rules, has(g.board, Key(c[1], c[2])),
                              nextState_countNeighbors(g, c[1], c[2]))
    IN  SelectSeq(loopCells(firstRow(g), g.maxHeight, firstCol(g), g.maxWidth), live)

\* lines 522-531 applied for the live cells first..last in scan order,
\* split as in dfsLoop
RECURSIVE boxLoop(_, _, _, _, _)
boxLoop(g, live, first, last, nb) ==
    IF first > last THEN nb
    ELSE IF first = last THEN extendBox(g, nb, live[first][1], live[first][2])
    ELSE LET mid == (first + last) \div 2
         IN  CHOOSE r \in {boxLoop(g, live, mid + 1, last, done) :
                              done \in {boxLoop(g, live, first, mid, nb)}} : TRUE

nextState(g) ==
    LET live == scanLive(g)
        nb == boxLoop(g, live, 1, Len(live),
                      [newMinHeight |-> g.minHeight, newMinWidth |-> g.minWidth,
                       newMaxHeight |-> g.maxHeight, newMaxWidth |-> g.maxWidth])
    IN  NewGame(g.rules, addAll(live), nb.newMinHeight, nb.newMinWidth,
                nb.newMaxHeight, nb.newMaxWidth)

(***************************************************************************)
(* The program: a Game and the playGame loop that drives it.               *)
(***************************************************************************)
VARIABLES
    variant,      \* which version of the Game class runs: "island" or "fullScan"
    rules,        \* this.rules
    board,        \* this.board
    minHeight,    \* this.minHeight
    minWidth,     \* this.minWidth
    maxHeight,    \* this.maxHeight
    maxWidth,     \* this.maxWidth
    delay,        \* the argument of playGame
    pc,           \* where playGame stands: "render", "sleep", "suspended", "step";
                  \* "idle" when it is not running
    timer,        \* ticks left before the timeout set by sleep fires
    display,      \* textContent of the gameSpace element
    gen,          \* steps taken so far
    renders,      \* renders of the current generation
    suspensions,  \* suspensions since the current generation was computed
    stopSignal,   \* a stop request raised by another task of the page
    stepsSinceStop, \* steps taken since the stop request was raised
    decision,     \* the last shouldLive call made while the rules are checked alone
    params,       \* the URL parameters playFromParams reads
    args,         \* the arguments of the last call of the Game constructor
    trace,        \* what dfs did during the last call of fastNextState
    maxWitdh      \* the property of that name the earlier draft sets on the Game

vars == <<variant, rules, board, minHeight, minWidth, maxHeight, maxWidth, delay, pc,
          timer, display, gen, renders, suspensions, stopSignal, stepsSinceStop, decision,
          params, args, trace, maxWitdh>>

\* the variables only a call from outside playGame writes
callVars == <<params, args, trace, maxWitdh>>

NoParams == [given |-> FALSE]

NoArgs == [called |-> FALSE]

NoTrace == [calls |-> 0, processed |-> <<>>, looped |-> <<>>]

\* the Game was not built from URL parameters or by a recorded constructor
\* call, no fastNextState has run and maxWitdh is undefined
NoCalls ==
    /\ params = NoParams
    /\ args = NoArgs
    /\ trace = NoTrace
    /\ maxWitdh = Null

gameVars == <<rules, board, minHeight, minWidth, maxHeight, maxWidth>>

Variants == {"island", "fullScan"}

\* the Game object held in the variables
Game == NewGame(rules, board, minHeight, minWidth, maxHeight, maxWidth)

\* the step playGame calls: line 195 in the current version, line 547 in the
\* full-scan version
stepOf(v, g) == IF v = "island" THEN fastNextState(g) ELSE nextState(g)

NoDecision == [made |-> FALSE]

\* the subsets of [0, h) x [0, w) the random seeding can make alive
SeedCells(h, w) == {s \in SUBSET ((0..(h - 1)) \X (0..(w - 1))) : Cardinality(s) <= MaxCells}

\* the cells below the density when initDensity is 0 (none: Math.random() is
\* never below 0) and when it is 1 (all: Math.random() is always below 1)
ExtremeSeeds(h, w) == {{}, (0..(h - 1)) \X (0..(w - 1))}

\* the fields of the Game object are those of g
GameIs(g) ==
    /\ rules = g.rules
    /\ board = g.board
    /\ minHeight = g.minHeight
    /\ minWidth = g.minWidth
    /\ maxHeight = g.maxHeight
    /\ maxWidth = g.maxWidth

\* new Game(initHeight, initWidth, initDensity) followed by the call of
\* playGame(delay), lines 210-213 (552-554 in the full-scan version), with
\* density 0 or 1
Init ==
    /\ variant \in Variants
    /\ delay \in 0..MaxDelay
    /\ \E h \in 0..MaxHeight, w \in 0..MaxWidth :
          \E below \in ExtremeSeeds(h, w) :
             \E g \in {Constructor(h, w, below, DefaultRules)} : GameIs(g)
    /\ pc = "render"
    /\ timer = 0
    /\ display = <<>>
    /\ gen = 0
    /\ renders = 0
    /\ suspensions = 0
    /\ stopSignal = FALSE
    /\ stepsSinceStop = 0
    /\ decision = NoDecision
    /\ NoCalls

\* where playGame goes after the render: the await of sleep(delay)
afterSleepCall_skipZero(ms) == IF ms = 0 THEN "step" ELSE "suspended"

afterSleepCall(ms) == "suspended"

\* where playGame goes when the timeout has fired
afterTimeout_checkStop(stop) == IF stop THEN "stopped" ELSE "step"

afterTimeout(stop) == "step"

\* line 193: textContent = this.toString()
Render ==
    /\ pc = "render"
    /\ display' = toString(Game)
    /\ renders' = renders + 1
    /\ pc' = "sleep"
    /\ UNCHANGED <<callVars, variant, gameVars, delay, timer, gen, suspensions, stopSignal,
                   stepsSinceStop, decision>>

\* line 194 and sleep, lines 4-6: setTimeout(resolve, ms), then the await
Sleep ==
    /\ pc = "sleep"
    /\ timer' = delay
    /\ pc' = afterSleepCall(delay)
    /\ suspensions' = IF pc' = "suspended" THEN suspensions + 1 ELSE suspensions
    /\ UNCHANGED <<callVars, variant, gameVars, delay, display, gen, renders, stopSignal,
                   stepsSinceStop, decision>>

\* time passes while playGame is suspended
Tick ==
    /\ pc = "suspended"
    /\ timer > 0
    /\ timer' = timer - 1
    /\ UNCHANGED <<callVars, variant, gameVars, delay, pc, display, gen, renders, suspensions,
                   stopSignal, stepsSinceStop, decision>>

\* another task of the page runs while playGame is suspended and asks it to stop
RaiseStop ==
    /\ pc = "suspended"
    /\ ~stopSignal
    /\ stopSignal' = TRUE
    /\ UNCHANGED <<callVars, variant, gameVars, delay, pc, timer, display, gen, renders,
                   suspensions, stepsSinceStop, decision>>

\* the timeout fires, resolve runs and playGame resumes after the await
TimerFire ==
    /\ pc = "suspended"
    /\ timer = 0
    /\ pc' = afterTimeout(stopSignal)
    /\ UNCHANGED <<callVars, variant, gameVars, delay, timer, display, gen, renders, suspensions,
                   stopSignal, stepsSinceStop, decision>>

\* line 195 (547): this.fastNextState() or this.nextState(), then back to
\* the top of the loop
Step ==
    /\ pc = "step"
    /\ gen < MaxGen
    /\ \E g \in {stepOf(variant, Game)} :
           /\ board' = g.board
           /\ minHeight' = g.minHeight
           /\ minWidth' = g.minWidth
           /\ maxHeight' = g.maxHeight
           /\ maxWidth' = g.maxWidth
    /\ gen' = gen + 1
    /\ renders' = 0
    /\ suspensions' = 0
    /\ stepsSinceStop' = IF stopSignal THEN stepsSinceStop + 1 ELSE stepsSinceStop
    /\ pc' = "render"
    /\ UNCHANGED <<callVars, variant, rules, delay, timer, display, stopSignal, decision>>

Next == Render \/ Sleep \/ Tick \/ RaiseStop \/ TimerFire \/ Step

Spec == Init /\ [][Next]_vars

(***************************************************************************)
(* The Game alone: the constructor with any seeding, then calls of the     *)
(* step method of its version; playGame is not running.                    *)
(***************************************************************************)
StepInit ==
    /\ variant \in Variants
    /\ delay = 0
    /\ \E h \in 0..MaxHeight, w \in 0..MaxWidth :
          \E below \in SeedCells(h, w) :
             \E g \in {Constructor(h, w, below, DefaultRules)} : GameIs(g)
    /\ pc = "idle"
    /\ timer = 0
    /\ display = <<>>
    /\ gen = 0
    /\ renders = 0
    /\ suspensions = 0
    /\ stopSignal = FALSE
    /\ stepsSinceStop = 0
    /\ decision = NoDecision
    /\ NoCalls

\* g.fastNextState() on a Game of the current version
FastNextStateCall ==
    /\ variant = "island"
    /\ pc = "idle"
    /\ gen < MaxGen
    /\ Len(board) <= MaxAlive
    /\ \E st \in {searchIslands(Game)} :
           /\ trace' = [calls |-> st.calls, processed |-> st.processed, looped |-> st.looped]
           /\ \E g \in {afterSearch(Game, st)} :
                 /\ board' = g.board
                 /\ minHeight' = g.minHeight
                 /\ minWidth' = g.minWidth
                 /\ maxHeight' = g.maxHeight
                 /\ maxWidth' = g.maxWidth
    /\ gen' = gen + 1
    /\ UNCHANGED <<params, args, maxWitdh, variant, rules, delay, pc, timer, display, renders,
                   suspensions, stopSignal, stepsSinceStop, decision>>

\* g.nextState() on a Game of the full-scan version
NextStateCall ==
    /\ variant = "fullScan"
    /\ pc = "idle"
    /\ gen < MaxGen
    /\ Len(board) <= MaxAlive
    /\ \E g \in {nextState(Game)} :
           /\ board' = g.board
           /\ minHeight' = g.minHeight
           /\ minWidth' = g.minWidth
           /\ maxHeight' = g.maxHeight
           /\ maxWidth' = g.maxWidth
    /\ gen' = gen + 1
    /\ UNCHANGED <<callVars, variant, rules, delay, pc, timer, display, renders, suspensions,
                   stopSignal, stepsSinceStop, decision>>

StepNext == FastNextStateCall \/ NextStateCall

StepSpec == StepInit /\ [][StepNext]_vars

(***************************************************************************)
(* The Game of the earlier draft alone: the constructor with any seeding,  *)
(* then calls of its fastNextState.                                        *)
(***************************************************************************)
DraftInit ==
    /\ variant = "draft"
    /\ delay = 0
    /\ \E h \in 0..MaxHeight, w \in 0..MaxWidth :
          \E below \in SeedCells(h, w) :
             \E g \in {Constructor(h, w, below, DefaultRules)} : GameIs(g)
    /\ pc = "idle"
    /\ timer = 0
    /\ display = <<>>
    /\ gen = 0
    /\ renders = 0
    /\ suspensions = 0
    /\ stopSignal = FALSE
    /\ stepsSinceStop = 0
    /\ decision = NoDecision
    /\ NoCalls

\* g.fastNextState() on a Game of the earlier draft
DraftFastNextStateCall ==
    /\ variant = "draft"
    /\ pc = "idle"
    /\ gen < MaxGen
    /\ Len(board) <= MaxAlive
    /\ \E st \in {draft_fastNextState(Game, maxWitdh)} :
           /\ board' = st.newBoard
           /\ minHeight' = st.box.minHeight
           /\ minWidth' = st.box.minWidth
           /\ maxHeight' = st.box.maxHeight
           /\ maxWidth' = st.box.maxWidth
           /\ maxWitdh' = st.box.maxWitdh
    /\ gen' = gen + 1
    /\ UNCHANGED <<variant, rules, delay, pc, timer, display, renders, suspensions,
                   stopSignal, stepsSinceStop, decision, params, args, trace>>

DraftNext == DraftFastNextStateCall

DraftSpec == DraftInit /\ [][DraftNext]_vars

(***************************************************************************)
(* The rule engine alone: a GameRules built from any two Ranges, and       *)
(* shouldLive called on it.                                                *)
(***************************************************************************)
RangeBounds == {Null} \cup {Num(n) : n \in 0..MaxRangeBound}

Ranges == {Range(lo, hi) : lo \in RangeBounds, hi \in RangeBounds}

RuleInit ==
    /\ variant = "island"
    /\ delay = 0
    /\ \E populate \in Ranges, reproduce \in Ranges :
          GameIs(Constructor(0, 0, {}, GameRules(populate, reproduce)))
    /\ pc = "idle"
    /\ timer = 0
    /\ display = <<>>
    /\ gen = 0
    /\ renders = 0
    /\ suspensions = 0
    /\ stopSignal = FALSE
    /\ stepsSinceStop = 0
    /\ decision = NoDecision
    /\ NoCalls

\* this.rules.shouldLive(isCurrentlyAlive, numNeighbors)
ShouldLiveCall ==
    /\ pc = "idle"
    /\ \E isCurrentlyAlive \in BOOLEAN, numNeighbors \in 0..8 :
          decision' = [made |-> TRUE, isCurrentlyAlive |-> isCurrentlyAlive,
                       numNeighbors |-> numNeighbors,
                       result |-> shouldLive(rules, isCurrentlyAlive, numNeighbors)]
    /\ UNCHANGED <<callVars, variant, gameVars, delay, pc, timer, display, gen, renders,
                   suspensions, stopSignal, stepsSinceStop>>

RuleNext == ShouldLiveCall

RuleSpec == RuleInit /\ [][RuleNext]_vars

(***************************************************************************)
(* A Game given rules of its own: new Game(h, w, density, rules) with      *)
(* density 0 or 1, then calls of the step method of its version.           *)
(***************************************************************************)
CustomBounds == {Null} \cup {Num(n) : n \in 0..MaxCustomBound}

CustomRanges == {Range(lo, hi) : lo \in CustomBounds, hi \in CustomBounds}

CustomInit ==
    /\ variant \in Variants
    /\ delay = 0
    /\ \E h \in 0..MaxHeight, w \in 0..MaxWidth :
          \E below \in ExtremeSeeds(h, w), populate \in CustomRanges, reproduce \in CustomRanges :
             \E g \in {Constructor(h, w, below, GameRules(populate, reproduce))} : GameIs(g)
    /\ pc = "idle"
    /\ timer = 0
    /\ display = <<>>
    /\ gen = 0
    /\ renders = 0
    /\ suspensions = 0
    /\ stopSignal = FALSE
    /\ stepsSinceStop = 0
    /\ decision = NoDecision
    /\ NoCalls

CustomSpec == CustomInit /\ [][StepNext]_vars

(***************************************************************************)
(* playFromParams, lines 203-214: the URL parameters, their conversion     *)
(* with unary plus, and the load handler that builds the Game.  A number   *)
(* is held in tenths, or is NaN.                                           *)
(***************************************************************************)
NaN == [nan |-> TRUE, tenths |-> 0]

Tenths(n) == [nan |-> FALSE, tenths |-> n]

Whole(n) == Tenths(10 * n)

\* a < b on two numbers: false as soon as one of them is NaN
lessThan_orEqual(a, b) == ~a.nan /\ ~b.nan /\ a.tenths <= b.tenths

lessThan(a, b) == ~a.nan /\ ~b.nan /\ a.tenths < b.tenths

isDigits(s) == Len(s) > 0 /\ \A k \in DOMAIN s : \E d \in DOMAIN Digits : Digits[d] = s[k]

\* unary plus on any string: the empty string is 0, a decimal numeral with
\* an optional sign and at most one fractional digit is its value, and a
\* string that is no numeral is NaN
StringToNumber(s) ==
    LET negative == Len(s) > 0 /\ s[1] = "-"
        body == IF negative THEN SubSeq(s, 2, Len(s)) ELSE s
        parts == split(body, ".")
        sign == IF negative THEN 0 - 1 ELSE 1
    IN  IF s = <<>> THEN Tenths(0)
        ELSE IF Len(parts) = 1 /\ isDigits(parts[1])
             THEN Tenths(sign * 10 * DigitsToNat(parts[1], 1, 0))
        ELSE IF Len(parts) = 2 /\ isDigits(parts[1]) /\ Len(parts[2]) = 1 /\ isDigits(parts[2])
             THEN Tenths(sign * (10 * DigitsToNat(parts[1], 1, 0) + DigitValue(parts[2][1])))
        ELSE NaN

\* urlParams.get(name) ? +urlParams.get(name) : dflt, where got is null or
\* the string of the parameter
param_nullOnly(got, dflt) ==
    IF got = Null THEN dflt ELSE StringToNumber(ValueOf(got))

param(got, dflt) ==
    IF got = Null \/ ValueOf(got) = <<>> THEN dflt ELSE StringToNumber(ValueOf(got))

\* the defaults of lines 206-209
DefaultHeight == Whole(100)

DefaultWidth == Whole(100)

DefaultDensity == Tenths(5)

DefaultDelay == Whole(500)

\* the values Math.random() returns, in tenths: the least and a large one
RandomValues == {0, 9}

\* the cells of the two loops of the constructor for which
\* Math.random() < initDensity is true when random[c] is drawn for cell c
belowDensity(random, initDensity) ==
    {c \in DOMAIN random : lessThan(Tenths(random[c]), initDensity)}

\* the draws of Math.random() for the cells of [0, h) x [0, w)
RandomDraws(h, w) == [((0..(h - 1)) \X (0..(w - 1))) -> RandomValues]

\* the texts given for the density parameter
DensityTexts ==
    {<<>>, <<"0">>, <<"1">>, <<"0", ".", "5">>, <<"1", ".", "5">>, <<"-", "1">>,
     <<"a", "b", "c">>}

\* the texts given for viewHeight and viewWidth
ViewTexts == {<<"1">>}

OrAbsent(texts) == {Null} \cup {{t} : t \in texts}

\* the page is loading: no Game exists yet.  height and width are given as
\* decimal integers, the other parameters may be absent
ConfigInit ==
    /\ variant = "island"
    /\ \E h \in (0 - 1)..MaxHeight, w \in (0 - 1)..MaxWidth :
          \E density \in OrAbsent(DensityTexts),
             dl \in OrAbsent({NumToString(n) : n \in 0..MaxDelay}),
             vh \in OrAbsent(ViewTexts), vw \in OrAbsent(ViewTexts) :
             params = [given |-> TRUE, height |-> {NumToString(h)},
                       width |-> {NumToString(w)}, density |-> density, delay |-> dl,
                       viewHeight |-> vh, viewWidth |-> vw]
    /\ GameIs(Constructor(0, 0, {}, DefaultRules))
    /\ delay = 0
    /\ pc = "load"
    /\ timer = 0
    /\ display = <<>>
    /\ gen = 0
    /\ renders = 0
    /\ suspensions = 0
    /\ stopSignal = FALSE
    /\ stepsSinceStop = 0
    /\ decision = NoDecision
    /\ args = NoArgs
    /\ trace = NoTrace
    /\ maxWitdh = Null

\* lines 203-213: the parameters are converted, the load handler builds the
\* Game from them and calls playGame
PlayFromParams ==
    /\ pc = "load"
    /\ LET initHeight == param(params.height, DefaultHeight)
           initWidth == param(params.width, DefaultWidth)
           initDensity == param(params.density, DefaultDensity)
           delayArg == param(params.delay, DefaultDelay)
       IN  /\ args' = [called |-> TRUE, initHeight |-> initHeight, initWidth |-> initWidth,
                       initDensity |-> initDensity, delay |-> delayArg]
           /\ delay' = delayArg.tenths \div 10
           /\ \E random \in RandomDraws(initHeight.tenths \div 10, initWidth.tenths \div 10) :
                 \E g \in {Constructor(initHeight.tenths \div 10, initWidth.tenths \div 10,
                                       belowDensity(random, initDensity), DefaultRules)} :
                    /\ board' = g.board
                    /\ minHeight' = g.minHeight
                    /\ minWidth' = g.minWidth
                    /\ maxHeight' = g.maxHeight
                    /\ maxWidth' = g.maxWidth
    /\ pc' = "render"
    /\ UNCHANGED <<variant, rules, timer, display, gen, renders, suspensions, stopSignal,
                   stepsSinceStop, decision, params, trace, maxWitdh>>

ConfigNext == PlayFromParams \/ Render

ConfigSpec == ConfigInit /\ [][ConfigNext]_vars

(***************************************************************************)
(* The constructor alone: new Game(initHeight, initWidth, initDensity)     *)
(* with any draws of Math.random().                                        *)
(***************************************************************************)
\* the densities given: not a number, negative, 0, 0.5, 1 and 1.5
Densities == {NaN} \cup {Tenths(d) : d \in {0 - 10, 0, 5, 10, 15}}

SeedInit ==
    /\ variant = "island"
    /\ GameIs(Constructor(0, 0, {}, DefaultRules))
    /\ delay = 0
    /\ pc = "new"
    /\ timer = 0
    /\ display = <<>>
    /\ gen = 0
    /\ renders = 0
    /\ suspensions = 0
    /\ stopSignal = FALSE
    /\ stepsSinceStop = 0
    /\ decision = NoDecision
    /\ NoCalls

\* new Game(initHeight, initWidth, initDensity), lines 56-73
ConstructorCall ==
    /\ pc = "new"
    /\ \E initHeight \in (0 - 1)..MaxHeight, initWidth \in (0 - 1)..MaxWidth,
          initDensity \in Densities :
          /\ args' = [called |-> TRUE, initHeight |-> Whole(initHeight),
                      initWidth |-> Whole(initWidth), initDensity |-> initDensity]
          /\ \E random \in RandomDraws(initHeight, initWidth) :
                \E g \in {Constructor(initHeight, initWidth,
                                      belowDensity(random, initDensity), DefaultRules)} :
                   /\ rules' = g.rules
                   /\ board' = g.board
                   /\ minHeight' = g.minHeight
                   /\ minWidth' = g.minWidth
                   /\ maxHeight' = g.maxHeight
                   /\ maxWidth' = g.maxWidth
    /\ pc' = "idle"
    /\ UNCHANGED <<variant, delay, timer, display, gen, renders, suspensions, stopSignal,
                   stepsSinceStop, decision, params, trace, maxWitdh>>

SeedNext == ConstructorCall

SeedSpec == SeedInit /\ [][SeedNext]_vars

(***************************************************************************)
(* Properties.  Alive is the alive-set as a set of coordinates; the        *)
(* reference notions below are stated on coordinates, without the keys,    *)
(* the Sets or the loops of the program.                                   *)
(***************************************************************************)
Alive == Cells(board)

InsideBox(c, g) ==
    /\ g.minHeight <= c[1] /\ c[1] < g.maxHeight
    /\ g.minWidth <= c[2] /\ c[2] < g.maxWidth

\* the box of g expanded by one cell on every side
InsideExpandedBox(c, g) ==
    /\ g.minHeight - 1 <= c[1] /\ c[1] <= g.maxHeight
    /\ g.minWidth - 1 <= c[2] /\ c[2] <= g.maxWidth

Abs(x) == IF x < 0 THEN 0 - x ELSE x

\* the number of the 8 Moore neighbours of c that are in the set alive
MooreCount(alive, c) ==
    Cardinality({d \in alive : d # c /\ Abs(d[1] - c[1]) <= 1 /\ Abs(d[2] - c[2]) <= 1})

\* the classical rule: survival with 2 or 3 neighbours, birth with exactly 3
ConwayLives(alive, c) ==
    IF c \in alive THEN MooreCount(alive, c) \in {2, 3} ELSE MooreCount(alive, c) = 3

\* a window of the unbounded grid reaching three cells beyond the box
Window(g) == ((g.minHeight - 3)..(g.maxHeight + 2)) \X ((g.minWidth - 3)..(g.maxWidth + 2))

ConwayNext(alive, g) == {c \in Window(g) : ConwayLives(alive, c)}

\* C1: every coordinate of the alive-set lies in the bounding box, in every
\* state reached from the constructor by fastNextState or nextState steps
C1_BoundingBox == \A c \in Alive : InsideBox(c, Game)

\* a step has put a live cell on a row above the seeded rectangle
C1_Witness ==
    /\ variant = "island"
    /\ gen >= 1
    /\ minHeight < 0
    /\ \E c \in Alive : c[1] = minHeight

\* C2: under the default rule the island search and the full scan compute
\* the same next alive-set from every generation whose alive-set is in its box
C2_SameAliveSet == Cells(fastNextState(Game).board) = Cells(nextState(Game).board)

\* a generation reached by a step whose successor is not empty and has a
\* cell outside the current box
C2_Witness ==
    /\ gen >= 1
    /\ \E c \in Cells(fastNextState(Game).board) : ~InsideBox(c, Game)

\* C3: the alive-set nextState computes is exactly the set of coordinates of
\* the unbounded grid that live by the default rule; none lies outside the
\* scanned region
C3_ReferenceStep == Cells(nextState(Game).board) = ConwayNext(Alive, Game)

\* a generation with a birth on the ring around the box and a death inside it
C3_Witness ==
    /\ variant = "fullScan"
    /\ gen >= 1
    /\ \E c \in ConwayNext(Alive, Game) : ~InsideBox(c, Game)
    /\ \E c \in Alive : c \notin ConwayNext(Alive, Game)

\* C4: a step leaves no live cell outside the previous box expanded by one
\* cell on each side
C4_PropagationBound == [][\A c \in Cells(board') : InsideExpandedBox(c, Game)]_vars

\* a step has put live cells on the ring around the box it started from, and
\* the next step starts from the extended box
C4_Witness ==
    /\ gen >= 2
    /\ minHeight < -1
    /\ \E c \in Alive : c[1] = minHeight

\* the smallest rectangle holding every cell of a non-empty alive-set
TightBox(alive) ==
    LET rows == {c[1] : c \in alive}
        cols == {c[2] : c \in alive}
    IN  [minHeight |-> CHOOSE r \in rows : \A q \in rows : r <= q,
         minWidth |-> CHOOSE k \in cols : \A q \in cols : k <= q,
         maxHeight |-> 1 + (CHOOSE r \in rows : \A q \in rows : q <= r),
         maxWidth |-> 1 + (CHOOSE k \in cols : \A q \in cols : q <= k)]

BoxOf(g) ==
    [minHeight |-> g.minHeight, minWidth |-> g.minWidth,
     maxHeight |-> g.maxHeight, maxWidth |-> g.maxWidth]

\* C5 as claimed: after nextState the box is the tight enclosure of the new
\* (non-empty) alive-set
C5_TightAfterStep ==
    (variant = "fullScan" /\ gen >= 1 /\ Alive # {}) => BoxOf(Game) = TightBox(Alive)

\* C5 amended: nextState extends the previous box by one on exactly the sides
\* where the new generation has a live cell just outside it, and never
\* shrinks it
C5_BoxExtendedOnly ==
    [][(variant = "fullScan" /\ gen' = gen + 1) =>
          /\ minHeight' = IF \E c \in Cells(board') : c[1] = minHeight - 1
                          THEN minHeight - 1 ELSE minHeight
          /\ maxHeight' = IF \E c \in Cells(board') : c[1] = maxHeight
                          THEN maxHeight + 1 ELSE maxHeight
          /\ minWidth' = IF \E c \in Cells(board') : c[2] = minWidth - 1
                         THEN minWidth - 1 ELSE minWidth
          /\ maxWidth' = IF \E c \in Cells(board') : c[2] = maxWidth
                         THEN maxWidth + 1 ELSE maxWidth]_vars

\* nextState has extended the box upwards and the box is not tight
C5_Witness ==
    /\ variant = "fullScan"
    /\ gen >= 1
    /\ minHeight = -1
    /\ Alive # {}
    /\ BoxOf(Game) # TightBox(Alive)

\* the neighbour counts n of 0..8 with lo <= n < hi, a null bound being no bound
Interval(range) ==
    {n \in 0..8 : /\ \A lo \in range.lowerBound : lo <= n
                  /\ \A hi \in range.upperBound : n < hi}

\* C6: shouldLive answers populate.inRange(n) for a live cell and
\* reproduce.inRange(n) for a dead one, inRange being the half-open interval
\* with null for a missing bound; by the default rule a live cell survives
\* exactly with 2 or 3 neighbours and a dead cell is born exactly with 3
C6_RuleEngine ==
    decision.made =>
        /\ decision.result =
              (decision.numNeighbors \in
                  Interval(IF decision.isCurrentlyAlive THEN rules.populate ELSE rules.reproduce))
        /\ rules = DefaultRules =>
              decision.result = IF decision.isCurrentlyAlive
                                THEN decision.numNeighbors \in {2, 3}
                                ELSE decision.numNeighbors = 3

\* shouldLive was asked about a live cell with 3 neighbours under the default
\* rule and said yes
C6_Witness ==
    /\ rules = DefaultRules
    /\ decision.made
    /\ decision.isCurrentlyAlive
    /\ decision.numNeighbors = 3
    /\ decision.result

\* three adjacent cells of one row, and the column of three through its middle
IsRowOfThree(alive) ==
    \E c \in alive : alive = {<<c[1], c[2] - 1>>, c, <<c[1], c[2] + 1>>}

Perpendicular(alive) ==
    LET c == CHOOSE m \in alive : alive = {<<m[1], m[2] - 1>>, m, <<m[1], m[2] + 1>>}
    IN  {<<c[1] - 1, c[2]>>, c, <<c[1] + 1, c[2]>>}

\* C7: from a row of three live cells one step gives the perpendicular row of
\* three and two steps give the original alive-set back, with nextState and
\* with fastNextState
C7_BlinkerPeriodTwo ==
    IsRowOfThree(Alive) =>
        \A v \in Variants :
            /\ Cells(stepOf(v, Game).board) = Perpendicular(Alive)
            /\ Cells(stepOf(v, stepOf(v, Game)).board) = Alive

\* the island search has brought a row of three back after two steps: the
\* box has grown by the column of three in between
C7_Witness ==
    /\ variant = "island"
    /\ gen >= 2
    /\ IsRowOfThree(Alive)
    /\ maxHeight - minHeight >= 3

\* a 2x2 block of four live cells
IsBlock(alive) ==
    \E c \in alive :
        alive = {c, <<c[1], c[2] + 1>>, <<c[1] + 1, c[2]>>, <<c[1] + 1, c[2] + 1>>}

\* C8: a 2x2 block is a fixed point: whatever the program does next, the
\* alive-set is the same four cells
C8_BlockStill == [][IsBlock(Alive) => Cells(board') = Alive]_vars

\* the block has gone through at least two steps
C8_Witness ==
    /\ gen >= 2
    /\ IsBlock(Alive)

\* C9: playGame renders, suspends and steps in strict repetition for every
\* delay, 0 included: a step is taken only after exactly one render of the
\* current generation and exactly one suspension, the text shown is that of the
\* current generation, the game changes in no other place, and other tasks
\* and the timer run only while playGame is suspended
C9_DriverOrdering ==
    [][/\ pc = "render" => pc' = "sleep"
       /\ pc = "sleep" => pc' = "suspended"
       /\ pc = "suspended" => pc' \in {"suspended", "step"}
       /\ pc = "step" => pc' = "render"
       /\ gen' # gen => /\ pc = "step"
                        /\ renders = 1
                        /\ suspensions = 1
                        /\ display = toString(Game)
       /\ gameVars' # gameVars => gen' # gen
       /\ (stopSignal' # stopSignal \/ timer' < timer) =>
              (pc = "suspended" /\ pc' = "suspended")]_vars

\* with delay 0 two steps have been taken and the third generation is shown
C9_Witness ==
    /\ delay = 0
    /\ gen >= 2
    /\ pc = "sleep"
    /\ renders = 1

\* C10 as claimed: once the stop signal is raised the driver performs no
\* further step
C10_NoStepAfterStop == stepsSinceStop = 0

\* C10 amended: playGame checks no signal and has no stopped state: when the
\* timeout fires it resumes at the step whether or not a stop was requested,
\* and from there it steps
C10_NoCancellation ==
    [][/\ (pc = "suspended" /\ pc' # "suspended") => pc' = "step"
       /\ (pc = "step" /\ pc' # "step") => (pc' = "render" /\ gen' = gen + 1)]_vars

\* a step was taken although a stop had been requested
C10_Witness ==
    /\ stopSignal
    /\ stepsSinceStop >= 1

\* the text toString gives when the box of g is replaced by the rows
\* [r0, r1) and the columns [c0, c1)
RenderRegion(g, r0, c0, r1, c1) == toString(NewGame(g.rules, g.board, r0, c0, r1, c1))

\* the value of a view parameter that is present
ViewLimit(got) == StringToNumber(ValueOf(got)).tenths \div 10

\* C11 as claimed: when viewHeight or viewWidth is given, the text rendered
\* covers only the rows [0, viewHeight) and the columns [0, viewWidth),
\* whatever the box is
C11_ViewClipped ==
    (params.given /\ pc = "sleep" /\ (params.viewHeight # Null \/ params.viewWidth # Null)) =>
        display = RenderRegion(Game,
                      IF params.viewHeight # Null THEN 0 ELSE minHeight,
                      IF params.viewWidth # Null THEN 0 ELSE minWidth,
                      IF params.viewHeight # Null THEN ViewLimit(params.viewHeight) ELSE maxHeight,
                      IF params.viewWidth # Null THEN ViewLimit(params.viewWidth) ELSE maxWidth)

\* a parameter that is present and not empty is malformed: not a number,
\* negative, or below (above) the least (largest) value allowed
Malformed(got, least, largest) ==
    /\ got # Null
    /\ ValueOf(got) # <<>>
    /\ LET n == StringToNumber(ValueOf(got))
       IN  n.nan \/ lessThan(n, Tenths(0)) \/ lessThan(n, least) \/ lessThan(largest, n)

MalformedParams ==
    \/ Malformed(params.height, Whole(1), Whole(1000))
    \/ Malformed(params.width, Whole(1), Whole(1000))
    \/ Malformed(params.density, Whole(0), Whole(1))
    \/ Malformed(params.delay, Whole(0), Whole(100000))

\* C12 as claimed: a malformed parameter is rejected, so no Game is
\* constructed from it
C12_Rejected == (params.given /\ MalformedParams) => ~args.called

\* what each density text means as a number
DensityMeaning(got) ==
    IF got = Null \/ got = {<<>>} THEN Tenths(5)
    ELSE IF got = {<<"0">>} THEN Tenths(0)
    ELSE IF got = {<<"1">>} THEN Tenths(10)
    ELSE IF got = {<<"0", ".", "5">>} THEN Tenths(5)
    ELSE IF got = {<<"1", ".", "5">>} THEN Tenths(15)
    ELSE IF got = {<<"-", "1">>} THEN Tenths(0 - 10)
    ELSE NaN

\* C12 amended: nothing is validated.  Once the page has loaded the constructor
\* has been called with the number each parameter converts to (NaN for a
\* text that is no number, the negative or out-of-range value itself, the
\* default for an absent or empty parameter), the box is (0, 0, height,
\* width) and playGame runs
C12_NoValidation ==
    (params.given /\ pc # "load") =>
        /\ args.called
        /\ \E h \in (0 - 1)..MaxHeight, w \in (0 - 1)..MaxWidth :
              /\ params.height = {NumToString(h)}
              /\ params.width = {NumToString(w)}
              /\ args.initHeight = Whole(h)
              /\ args.initWidth = Whole(w)
              /\ maxHeight = h
              /\ maxWidth = w
        /\ args.initDensity = DensityMeaning(params.density)
        /\ \/ params.delay = Null /\ args.delay = Whole(500)
           \/ \E n \in 0..MaxDelay : params.delay = {NumToString(n)} /\ args.delay = Whole(n)
        /\ pc \in {"render", "sleep"}

\* a Game was built from a negative height and a density that is NaN
C12_Witness ==
    /\ params.given
    /\ args.called
    /\ args.initDensity.nan
    /\ args.initHeight.tenths < 0
    /\ pc = "sleep"

\* C13: the text Render writes has one line for each row of [minHeight,
\* maxHeight) in increasing order, each holding one character for each column
\* of [minWidth, maxWidth) in increasing order, 'X' for a live cell and a
\* space for a dead one, and ending in a newline; the empty alive-set with
\* box (0, 0, 2, 3) gives two lines of three spaces; the Game is unchanged
C13_Render ==
    [][pc = "render" =>
          LET lines == split(display', "\n")
              nRows == IF maxHeight > minHeight THEN maxHeight - minHeight ELSE 0
              nCols == IF maxWidth > minWidth THEN maxWidth - minWidth ELSE 0
          IN  /\ Len(lines) = nRows + 1
              /\ lines[nRows + 1] = <<>>
              /\ \A k \in 1..nRows :
                    /\ Len(lines[k]) = nCols
                    /\ \A c \in 1..nCols :
                          lines[k][c] = IF <<minHeight + (k - 1), minWidth + (c - 1)>> \in Alive
                                        THEN "X" ELSE " "
              /\ (Alive = {} /\ BoxOf(Game) = [minHeight |-> 0, minWidth |-> 0,
                                               maxHeight |-> 2, maxWidth |-> 3])
                    => display' = <<" ", " ", " ", "\n", " ", " ", " ", "\n">>
              /\ UNCHANGED gameVars]_vars

\* a generation with live and dead cells in a box that has grown upwards has
\* been rendered
C13_Witness ==
    /\ pc = "sleep"
    /\ gen >= 1
    /\ minHeight < 0
    /\ Alive # {}
    /\ \E i \in minHeight..(maxHeight - 1), j \in minWidth..(maxWidth - 1) : <<i, j>> \notin Alive
    /\ display = toString(Game)

\* the coordinates of [0, h) x [0, w) for the height and width the
\* constructor was called with
SeedRegion ==
    (0..((args.initHeight.tenths \div 10) - 1)) \X (0..((args.initWidth.tenths \div 10) - 1))

\* C14: with density 0 the constructor leaves the alive-set empty and with
\* density 1 it makes every coordinate of [0, height) x [0, width) alive,
\* whatever Math.random() returned
C14_DensityExtremes ==
    args.called =>
        /\ args.initDensity = Tenths(0) => Alive = {}
        /\ args.initDensity = Tenths(10) => Alive = SeedRegion

\* density 1 on the largest region
C14_Witness ==
    /\ args.called
    /\ args.initDensity = Tenths(10)
    /\ args.initHeight = Whole(MaxHeight)
    /\ args.initWidth = Whole(MaxWidth)
    /\ Cardinality(Alive) = MaxHeight * MaxWidth

\* C15: the constructor sets the box to (0, 0, height, width) and every
\* seeded coordinate has its row in [0, height) and its column in [0, width)
C15_SeedBox ==
    (args.called /\ gen = 0) =>
        /\ BoxOf(Game) = [minHeight |-> 0, minWidth |-> 0,
                          maxHeight |-> args.initHeight.tenths \div 10,
                          maxWidth |-> args.initWidth.tenths \div 10]
        /\ \A c \in Alive : /\ 0 <= c[1] /\ 10 * c[1] < args.initHeight.tenths
                            /\ 0 <= c[2] /\ 10 * c[2] < args.initWidth.tenths

\* density 0.5 left some cells of the region alive and some dead
C15_Witness ==
    /\ args.called
    /\ args.initDensity = Tenths(5)
    /\ Alive # {}
    /\ Alive # SeedRegion
    /\ maxHeight = MaxHeight

\* C16 as claimed: the draft's fastNextState extends the box on all four
\* sides, so after any sequence of its steps the alive-set is inside the box
C16_DraftBoxExtended == variant = "draft" => \A c \in Alive : InsideBox(c, Game)

\* C17: on every generation the box left by fastNextState equals the box
\* left by nextState
C17_SameBox == BoxOf(fastNextState(Game)) = BoxOf(nextState(Game))

\* a generation reached by a step whose successor has cells just above and
\* just below the box, so that both algorithms extend it on two sides
C17_Witness ==
    /\ gen >= 1
    /\ Alive # {}
    /\ \E c \in Cells(nextState(Game).board) : c[1] = minHeight - 1
    /\ \E c \in Cells(nextState(Game).board) : c[1] = maxHeight
    /\ BoxOf(fastNextState(Game)) # BoxOf(Game)

\* C18 as claimed: whatever rules the Game was given, on every generation
\* whose alive-set lies inside its box fastNextState and nextState produce
\* the same alive-set
C18_SameAliveSetAnyRules ==
    (\A c \in Alive : InsideBox(c, Game)) =>
        Cells(fastNextState(Game).board) = Cells(nextState(Game).board)

\* C19: a call of fastNextState returns, and during it dfs goes past the
\* visited check at most once for each coordinate: no coordinate is processed
\* twice, and the coordinates processed lie in the box expanded by one
C19_VisitedOnce ==
    [][(variant = "island" /\ gen' = gen + 1) =>
          /\ \A m, n \in DOMAIN trace'.processed :
                m # n => trace'.processed[m] # trace'.processed[n]
          /\ \A c \in Cells(trace'.processed) : InsideExpandedBox(c, Game)
          /\ trace'.calls >= Len(trace'.processed)]_vars

\* dfs was called on coordinates it had visited already
C19_Witness ==
    /\ variant = "island"
    /\ gen >= 1
    /\ Len(trace.processed) >= 4
    /\ trace.calls > Len(trace.processed) + 4

\* C20: during fastNextState the two for loops of dfs run for exactly the
\* coordinates alive in the current generation; a dead coordinate dfs reaches
\* is only tested for birth, is alive in the new generation and has no
\* neighbour explored from it
C20_DeadCellsAreProbes ==
    [][(variant = "island" /\ gen' = gen + 1) =>
          /\ Cells(trace'.looped) = Alive
          /\ \A c \in Cells(trace'.processed) \ Alive :
                c \in Cells(board') /\ c \notin Cells(trace'.looped)]_vars

\* the search ran the loops for several live cells and probed dead cells
\* that are born
C20_Witness ==
    /\ variant = "island"
    /\ gen >= 1
    /\ Len(trace.looped) >= 3
    /\ Len(trace.processed) > Len(trace.looped)

\* C21: a call of nextState or fastNextState never shrinks the box:
\* minHeight and minWidth stay or go down by one, maxHeight and maxWidth
\* stay or go up by one, also when the population shrinks or dies out
C21_BoxMonotonic ==
    [][(variant \in Variants /\ gen' = gen + 1) =>
          /\ minHeight' \in {minHeight, minHeight - 1}
          /\ minWidth' \in {minWidth, minWidth - 1}
          /\ maxHeight' \in {maxHeight, maxHeight + 1}
          /\ maxWidth' \in {maxWidth, maxWidth + 1}]_vars

\* steps had extended the box upwards and the population has since left
\* the row they added, the box keeping it
C21_Witness ==
    /\ variant = "island"
    /\ gen >= 2
    /\ minHeight < 0
    /\ Alive # {}
    /\ \A c \in Alive : c[1] > minHeight

====
